---- MODULE Spec2Model ----
(***************************************************************************)
(* A model of triangulizor.py: triangulize() crops an RGB image to a       *)
(* multiple of the tile size, then for every tile samples four triangular  *)
(* regions, picks a diagonal split from the colour distances and paints    *)
(* two flat triangles over the tile.                                       *)
(***************************************************************************)
EXTENDS Integers, Sequences, FiniteSets, TLC

VARIABLES
    pc,               \* where triangulize is: start, prep, tiling, done, error
    tile_size,        \* the tile_size argument
    image,            \* the image being processed: its size and its pixels
    orig,             \* the image passed in
    todo,             \* the tile origins iter_tiles has yet to yield
    calls,            \* the origins process_tile was called with, in order
    err,              \* the exception raised, or "none"
    cropped,          \* whether prep_image called image.crop
    fillsBottomEdge,  \* whether the library's polygon fill paints the last row
    last,             \* what the latest process_tile call computed
    painted           \* the cells painted by the process_tile calls so far

vars == <<pc, tile_size, image, orig, todo, calls, err, cropped,
          fillsBottomEdge, last, painted>>

(* ---------------------------- bounds ---------------------------------- *)

\* largest input width
MaxW == 8
\* largest input height
MaxH == 8
\* largest tile size tried
MaxTile == 6
\* the odd pixel of an input image lies in columns and rows 0..MaxSpot
MaxSpot == 3

TileSizes == (0 - 2) .. MaxTile

Black == <<0, 0, 0>>
Red == <<255, 0, 0>>
Palette == {Red, <<0, 90, 200>>}
SpotCells == (0 .. MaxSpot) \X (0 .. MaxSpot)

(* ---------------------------- helpers --------------------------------- *)

Abs(a) == IF a < 0 THEN 0 - a ELSE a

\* Python 2 integer division: floor, also for a negative divisor
FloorDiv(a, b) == IF b > 0 THEN a \div b ELSE (0 - a) \div (0 - b)

\* Python's % for ints: result has the sign of the divisor
PyMod(a, b) == a - b * FloorDiv(a, b)

\* xrange(a, b)
xrange(a, b) == [i \in 1 .. (IF b > a THEN b - a ELSE 0) |-> a + i - 1]

\* xrange(a, b, step), step # 0
xrange3(a, b, step) ==
    LET n == IF step > 0
             THEN (IF b > a THEN ((b - a - 1) \div step) + 1 ELSE 0)
             ELSE (IF a > b THEN ((a - b - 1) \div (0 - step)) + 1 ELSE 0)
    IN [i \in 1 .. n |-> a + (i - 1) * step]

RECURSIVE Flatten(_)
Flatten(ss) == IF Len(ss) = 0 THEN <<>>
               ELSE Flatten(SubSeq(ss, 1, Len(ss) - 1)) \o ss[Len(ss)]

SeqSet(s) == {s[i] : i \in DOMAIN s}

Cells(w, h) == (0 .. (w - 1)) \X (0 .. (h - 1))

\* the square of a tile: tile_x <= x < tile_x + T, tile_y <= y < tile_y + T
TileSquare(tile_x, tile_y, T) ==
    (tile_x .. (tile_x + T - 1)) \X (tile_y .. (tile_y + T - 1))

(* ---------------------------- colour math ----------------------------- *)

color_reducer(c1, c2) == <<c1[1] + c2[1], c1[2] + c2[2], c1[3] + c2[3]>>

\* reduce(color_reducer, colors) for a non-empty list
RECURSIVE reduce_colors(_)
reduce_colors(colors) ==
    IF Len(colors) = 1 THEN colors[1]
    ELSE color_reducer(reduce_colors(SubSeq(colors, 1, Len(colors) - 1)),
                       colors[Len(colors)])

\* reduce() of an empty sequence with no initial value raises TypeError
average_fails(colors) == Len(colors) = 0

get_average_color(colors) ==
    LET t == reduce_colors(colors)
        total == Len(colors)
    IN <<t[1] \div total, t[2] \div total, t[3] \div total>>

get_color_dist(c1, c2) ==
    <<Abs(c1[1] - c2[1]), Abs(c1[2] - c2[2]), Abs(c1[3] - c2[3])>>

\* 'rgb(%d, %d, %d)' % (r, g, b)
make_color(c) == <<"rgb(", c[1], c[2], c[3], ")">>

\* the ink ImageDraw derives from a colour string
ink_of(s) == <<s[2], s[3], s[4]>>

\* Python's ordering of tuples
TupleLeq(a, b) ==
    \/ a[1] < b[1]
    \/ a[1] = b[1] /\ a[2] < b[2]
    \/ a[1] = b[1] /\ a[2] = b[2] /\ a[3] <= b[3]

\* sorted(ds)[0]
sorted_first(ds) ==
    CHOOSE d \in SeqSet(ds) : \A e \in SeqSet(ds) : TupleLeq(d, e)

(* ---------------------------- prep_image ------------------------------ *)

\* image.crop((0, 0, new_w, new_h)); cells outside the source are black
crop(img, new_w, new_h) ==
    [size |-> <<new_w, new_h>>,
     pix  |-> [p \in Cells(new_w, new_h) |->
                 IF p \in DOMAIN img.pix THEN img.pix[p] ELSE Black]]

\* a crop that rounds the tile counts up
prep_image_ceil(img, T) ==
    LET w == img.size[1]
        h == img.size[2]
        new_w == (0 - FloorDiv(0 - w, T)) * T
        new_h == (0 - FloorDiv(0 - h, T)) * T
    IN IF new_w = w /\ new_h = h THEN [image |-> img, cropped |-> FALSE]
       ELSE [image |-> crop(img, new_w, new_h), cropped |-> TRUE]

prep_image(img, T) ==
    LET w == img.size[1]
        h == img.size[2]
        x_tiles == FloorDiv(w, T)
        y_tiles == FloorDiv(h, T)
        new_w == x_tiles * T
        new_h == y_tiles * T
    IN IF new_w = w /\ new_h = h THEN [image |-> img, cropped |-> FALSE]
       ELSE [image |-> crop(img, new_w, new_h), cropped |-> TRUE]

iter_tiles(img, T) ==
    LET w == img.size[1]
        h == img.size[2]
        ys == xrange3(0, h, T)
        xs == xrange3(0, w, T)
    IN Flatten([j \in DOMAIN ys |-> [i \in DOMAIN xs |-> <<xs[i], ys[j]>>]])

(* ---------------------------- triangle_colors ------------------------- *)

north_cells(tile_x, tile_y, T) ==
    LET quad_size == FloorDiv(T, 2)
        ys == xrange(tile_y, tile_y + quad_size)
    IN Flatten([j \in DOMAIN ys |->
         LET y == ys[j]
             x_off == y - tile_y
             xs == xrange(tile_x + x_off, tile_x + T - x_off)
         IN [i \in DOMAIN xs |-> <<xs[i], y>>]])

south_cells(tile_x, tile_y, T) ==
    LET quad_size == FloorDiv(T, 2)
        ys == xrange(tile_y + quad_size, tile_y + T)
    IN Flatten([j \in DOMAIN ys |->
         LET y == ys[j]
             x_off == tile_y + T - y
             xs == xrange(tile_x + x_off, tile_x + T - x_off)
         IN [i \in DOMAIN xs |-> <<xs[i], y>>]])

east_cells(tile_x, tile_y, T) ==
    LET quad_size == FloorDiv(T, 2)
        xs == xrange(tile_x, tile_x + quad_size)
    IN Flatten([i \in DOMAIN xs |->
         LET x == xs[i]
             y_off == x - tile_x
             ys == xrange(tile_y + y_off, tile_y + T - y_off)
         IN [j \in DOMAIN ys |-> <<x, ys[j]>>]])

west_cells(tile_x, tile_y, T) ==
    LET quad_size == FloorDiv(T, 2)
        xs == xrange(tile_x + quad_size, tile_x + T)
    IN Flatten([i \in DOMAIN xs |->
         LET x == xs[i]
             y_off == tile_x + T - x
             ys == xrange(tile_y + y_off, tile_y + T - y_off)
         IN [j \in DOMAIN ys |-> <<x, ys[j]>>]])

\* the pixel lists north, east, south, west, as the cells they were read from
region_cells(tile_x, tile_y, T) ==
    <<north_cells(tile_x, tile_y, T), east_cells(tile_x, tile_y, T),
      south_cells(tile_x, tile_y, T), west_cells(tile_x, tile_y, T)>>

\* map(get_average_color, [north, east, south, west]) raises on an empty list
regions_fail(rs) == \E k \in 1 .. 4 : average_fails(rs[k])

\* map(get_average_color, [north, east, south, west]), rs the cells read
region_colors(rs, pix) ==
    [k \in 1 .. 4 |-> get_average_color([i \in DOMAIN rs[k] |-> pix[rs[k][i]]])]

triangle_colors_fails(tile_x, tile_y, T) ==
    regions_fail(region_cells(tile_x, tile_y, T))

triangle_colors(tile_x, tile_y, T, pix) ==
    region_colors(region_cells(tile_x, tile_y, T), pix)

(* ---------------------------- split selection ------------------------- *)

\* the first candidate, in the order d_ne, d_nw, d_se, d_sw, that is minimal
select_split_first(d_ne, d_nw, d_se, d_sw) ==
    LET ds == <<d_ne, d_nw, d_se, d_sw>>
        closest == sorted_first(ds)
        first == CHOOSE k \in 1 .. 4 :
                    ds[k] = closest /\ \A m \in 1 .. (k - 1) : ds[m] # closest
    IN IF first \in {1, 4} THEN "right" ELSE "left"

select_split(d_ne, d_nw, d_se, d_sw) ==
    LET closest == sorted_first(<<d_ne, d_nw, d_se, d_sw>>)
    IN IF closest \in {d_ne, d_sw} THEN "right" ELSE "left"

(* ---------------------------- draw_triangles -------------------------- *)

corner_nw(tile_x, tile_y, T) == <<tile_x, tile_y>>
corner_ne(tile_x, tile_y, T) == <<tile_x + T - 1, tile_y>>
corner_se(tile_x, tile_y, T) == <<tile_x + T - 1, tile_y + T>>
corner_sw(tile_x, tile_y, T) == <<tile_x, tile_y + T>>

draw_triangle(a, b, c, color) == [pts |-> <<a, b, c>>, fill |-> make_color(color)]

\* the two polygon calls of draw_triangles, in order
draw_triangles(tile_x, tile_y, T, split, top_color, bottom_color) ==
    LET nw == corner_nw(tile_x, tile_y, T)
        ne == corner_ne(tile_x, tile_y, T)
        se == corner_se(tile_x, tile_y, T)
        sw == corner_sw(tile_x, tile_y, T)
    IN IF split = "left"
       THEN <<draw_triangle(nw, ne, se, top_color),
              draw_triangle(nw, sw, se, bottom_color)>>
       ELSE <<draw_triangle(sw, nw, ne, top_color),
              draw_triangle(sw, se, ne, bottom_color)>>

Cross(o, a, p) == (a[1] - o[1]) * (p[2] - o[2]) - (a[2] - o[2]) * (p[1] - o[1])

InTriangle(p, pts) ==
    LET d1 == Cross(pts[1], pts[2], p)
        d2 == Cross(pts[2], pts[3], p)
        d3 == Cross(pts[3], pts[1], p)
    IN ~ ((d1 < 0 \/ d2 < 0 \/ d3 < 0) /\ (d1 > 0 \/ d2 > 0 \/ d3 > 0))

MinOf(S) == CHOOSE m \in S : \A n \in S : m <= n
MaxOf(S) == CHOOSE m \in S : \A n \in S : m >= n

\* The cells draw.polygon(pts, fill) paints: the cells of the image inside the
\* triangle.  Whether the cells of the polygon's last row (its bottom edge)
\* are painted depends on the rasteriser of the imaging library in use.
polygon_cells(img, pts, bottomEdge) ==
    LET xsv == {pts[k][1] : k \in 1 .. 3}
        ysv == {pts[k][2] : k \in 1 .. 3}
        box == (MinOf(xsv) .. MaxOf(xsv)) \X (MinOf(ysv) .. MaxOf(ysv))
    IN {p \in box : /\ p \in DOMAIN img.pix
                    /\ InTriangle(p, pts)
                    /\ (bottomEdge \/ p[2] < MaxOf(ysv))}

polygon(img, op, bottomEdge) ==
    LET cells == polygon_cells(img, op.pts, bottomEdge)
    IN [img EXCEPT !.pix = [p \in DOMAIN img.pix |->
                              IF p \in cells THEN ink_of(op.fill) ELSE img.pix[p]]]

(* ---------------------------- process_tile ---------------------------- *)

NoTile ==
    [valid |-> FALSE, raised |-> FALSE, x |-> 0, y |-> 0,
     regions |-> <<<<>>, <<>>, <<>>, <<>>>>, colors |-> <<>>, dists |-> <<>>,
     split |-> "none", top_color |-> <<>>, bottom_color |-> <<>>,
     ops |-> <<>>, wrote |-> {}, stale |-> {}]

\* draw_triangles' two polygon calls applied to the image
tile_painted(tile_x, tile_y, img, bottomEdge, before, rs, cs, ds, split, top_color, bottom_color, ops) ==
    [raised |-> FALSE,
     image |-> polygon(polygon(img, ops[1], bottomEdge), ops[2], bottomEdge),
     info |-> [valid |-> TRUE, raised |-> FALSE, x |-> tile_x, y |-> tile_y,
               regions |-> rs, colors |-> cs, dists |-> ds, split |-> split,
               top_color |-> top_color, bottom_color |-> bottom_color,
               ops |-> ops,
               wrote |-> polygon_cells(img, ops[1].pts, bottomEdge)
                           \cup polygon_cells(img, ops[2].pts, bottomEdge),
               stale |-> (UNION {SeqSet(rs[k]) : k \in 1 .. 4}) \cap before]]

\* the average colour of each side of the split, then draw_triangles
tile_split(tile_x, tile_y, T, img, bottomEdge, before, rs, cs, ds, split) ==
    LET n == cs[1]
        e == cs[2]
        s == cs[3]
        w == cs[4]
        top_color == IF split = "right" THEN get_average_color(<<n, e>>)
                     ELSE get_average_color(<<n, w>>)
        bottom_color == IF split = "right" THEN get_average_color(<<s, w>>)
                        ELSE get_average_color(<<s, e>>)
    IN tile_painted(tile_x, tile_y, img, bottomEdge, before, rs, cs, ds, split,
                    top_color, bottom_color,
                    draw_triangles(tile_x, tile_y, T, split, top_color, bottom_color))

\* the distances between the triangle pairs, then the split
tile_colored(tile_x, tile_y, T, img, bottomEdge, before, rs, cs) ==
    LET n == cs[1]
        e == cs[2]
        s == cs[3]
        w == cs[4]
        d_ne == get_color_dist(n, e)
        d_nw == get_color_dist(n, w)
        d_se == get_color_dist(s, e)
        d_sw == get_color_dist(s, w)
    IN tile_split(tile_x, tile_y, T, img, bottomEdge, before, rs, cs,
                  <<d_ne, d_nw, d_se, d_sw>>,
                  select_split(d_ne, d_nw, d_se, d_sw))

\* triangle_colors on the cells rs: it raises, or the tile is processed
tile_sampled(tile_x, tile_y, T, img, bottomEdge, before, rs) ==
    IF regions_fail(rs)
    THEN [raised |-> TRUE, image |-> img,
          info |-> [NoTile EXCEPT !.valid = TRUE, !.raised = TRUE,
                                  !.x = tile_x, !.y = tile_y, !.regions = rs,
                                  !.stale = (UNION {SeqSet(rs[k]) : k \in 1 .. 4})
                                               \cap before]]
    ELSE tile_colored(tile_x, tile_y, T, img, bottomEdge, before, rs,
                      region_colors(rs, img.pix))

\* What process_tile computes for one tile (info) and the image it leaves.
\* before: the cells painted by the tiles processed earlier.
process_tile(tile_x, tile_y, T, img, bottomEdge, before) ==
    tile_sampled(tile_x, tile_y, T, img, bottomEdge, before,
                 region_cells(tile_x, tile_y, T))

(* ---------------------------- triangulize ----------------------------- *)

\* input images: one background colour and at most one pixel of another colour
InputImage(w, h, bg, spot, sc) ==
    [size |-> <<w, h>>,
     pix  |-> [p \in Cells(w, h) |-> IF p = spot THEN sc ELSE bg]]

Init ==
    /\ pc = "start"
    /\ tile_size \in TileSizes
    /\ \E w \in 0 .. MaxW, h \in 0 .. MaxH, bg \in Palette, sc \in Palette,
          spot \in SpotCells :
          image = InputImage(w, h, bg, spot, sc)
    /\ orig = image
    /\ todo = <<>>
    /\ calls = <<>>
    /\ err = "none"
    /\ cropped = FALSE
    /\ fillsBottomEdge \in BOOLEAN
    /\ last = NoTile
    /\ painted = {}

\* assert isinstance(tile_size, int) and tile_size % 2 == 0
Validate ==
    /\ pc = "start"
    /\ IF PyMod(tile_size, 2) = 0
       THEN pc' = "prep" /\ err' = err
       ELSE pc' = "error" /\ err' = "AssertionError"
    /\ UNCHANGED <<tile_size, image, orig, todo, calls, cropped,
                   fillsBottomEdge, last, painted>>

\* image = prep_image(image, tile_size); pix = image.load(); the tile iterator
PrepImage ==
    /\ pc = "prep"
    /\ IF tile_size = 0
       THEN /\ pc' = "error"
            /\ err' = "ZeroDivisionError"
            /\ UNCHANGED <<image, cropped, todo>>
       ELSE /\ image' = prep_image(image, tile_size).image
            /\ cropped' = prep_image(image, tile_size).cropped
            /\ todo' = iter_tiles(image', tile_size)
            /\ pc' = "tiling"
            /\ err' = err
    /\ UNCHANGED <<tile_size, orig, calls, fillsBottomEdge, last, painted>>

\* the state after a process_tile call with outcome r on the k-th remaining origin
TileDone(k, r) ==
    /\ calls' = Append(calls, todo[k])
    /\ last' = r.info
    /\ todo' = [i \in 1 .. (Len(todo) - 1) |-> IF i < k THEN todo[i] ELSE todo[i + 1]]
    /\ IF r.raised
       THEN /\ pc' = "error"
            /\ err' = "TypeError"
            /\ UNCHANGED <<image, painted>>
       ELSE /\ image' = r.image
            /\ painted' = painted \cup r.info.wrote
            /\ UNCHANGED <<pc, err>>
    /\ UNCHANGED <<tile_size, orig, cropped, fillsBottomEdge>>

\* one process_tile call on the k-th remaining tile origin
TileStep(k) ==
    TileDone(k, process_tile(todo[k][1], todo[k][2], tile_size, image,
                             fillsBottomEdge, painted))

\* the next iteration of: for x, y in iter_tiles(image, tile_size)
ProcessTile ==
    /\ pc = "tiling"
    /\ todo # <<>>
    /\ TileStep(1)

\* return image
Return ==
    /\ pc = "tiling"
    /\ todo = <<>>
    /\ pc' = "done"
    /\ UNCHANGED <<tile_size, image, orig, todo, calls, err, cropped,
                   fillsBottomEdge, last, painted>>

Next == Validate \/ PrepImage \/ ProcessTile \/ Return

Spec == Init /\ [][Next]_vars

\* the tiles of one run taken in an arbitrary order
ProcessAnyTile ==
    /\ pc = "tiling"
    /\ \E k \in DOMAIN todo : TileStep(k)

NextAnyOrder == Validate \/ PrepImage \/ ProcessAnyTile \/ Return

SpecAnyOrder == Init /\ [][NextAnyOrder]_vars

\* triangulize as a function of its input: the image after the tiles ts
RECURSIVE run_tiles(_, _, _, _)
run_tiles(img, ts, T, bottomEdge) ==
    IF ts = <<>> THEN img
    ELSE run_tiles(process_tile(ts[1][1], ts[1][2], T, img, bottomEdge, {}).image,
                   Tail(ts), T, bottomEdge)

\* lines 25-32 for a tile size that is not 0 and with no tile raising
triangulize(img, T, bottomEdge) ==
    run_tiles(prep_image(img, T).image,
              iter_tiles(prep_image(img, T).image, T), T, bottomEdge)

(* ============================ properties ============================== *)

ValidTileSize == tile_size > 0 /\ tile_size % 2 = 0

Prepared == pc \notin {"start", "prep"} /\ err \notin {"AssertionError", "ZeroDivisionError"}

Rendered == last.valid /\ ~ last.raised

RegionSet(k) == SeqSet(last.regions[k])

IsMinDist(d) == \A k \in 1 .. 4 : TupleLeq(d, last.dists[k])

\* C1: a tile size that is not a positive even integer is rejected by the
\* validation step with an invalid-argument error, before the image is
\* cropped, before any pixel is read and before any tile is processed.
C1_InvalidTileSizeRejected ==
    (~ ValidTileSize /\ pc # "start") =>
        /\ pc = "error"
        /\ err = "AssertionError"
        /\ ~ cropped
        /\ image = orig
        /\ calls = <<>>

\* C2: for a valid tile size T the image that is tiled and returned has width
\* floor(W/T)*T and height floor(H/T)*T: multiples of T, at most the original
\* dimensions and smaller by less than T; the kept area is the sub-rectangle
\* anchored at (0,0); an image whose dimensions are multiples of T is not cropped.
C2_CropToTileMultiple ==
    (ValidTileSize /\ Prepared) =>
        LET W == orig.size[1]
            H == orig.size[2]
            T == tile_size
            w == image.size[1]
            h == image.size[2]
        IN /\ w = (W \div T) * T
           /\ h = (H \div T) * T
           /\ w % T = 0 /\ h % T = 0
           /\ w <= W /\ h <= H
           /\ W - w < T /\ H - h < T
           /\ DOMAIN image.pix = Cells(w, h)
           /\ calls = <<>> => \A p \in Cells(w, h) : image.pix[p] = orig.pix[p]
           /\ (W % T = 0 /\ H % T = 0) => ~ cropped
           /\ (W % T = 0 /\ H % T = 0 /\ calls = <<>>) => image = orig

\* C2 witness: a 5-wide image cropped to 4 columns, not yet tiled
C2_Witness ==
    /\ ValidTileSize /\ pc = "tiling" /\ calls = <<>> /\ cropped
    /\ orig.size[1] = 5 /\ image.size[1] = 4 /\ tile_size = 4
    /\ image.size[2] > 0

\* C3: the four regions sampled by triangle_colors partition the tile: they
\* are pairwise disjoint, their union is the whole tile square, and their
\* sizes add up to T*T.
C3_RegionsPartitionTile ==
    (ValidTileSize /\ last.valid) =>
        /\ \A k, m \in 1 .. 4 : k # m => RegionSet(k) \cap RegionSet(m) = {}
        /\ UNION {RegionSet(k) : k \in 1 .. 4} = TileSquare(last.x, last.y, tile_size)
        /\ Len(last.regions[1]) + Len(last.regions[2]) + Len(last.regions[3])
             + Len(last.regions[4]) = tile_size * tile_size

\* C4: for every even tile size T >= 2 each of the four region pixel lists is
\* non-empty, so get_average_color never fails during triangulize.
C4_RegionsNonEmpty ==
    (ValidTileSize /\ last.valid) =>
        /\ \A k \in 1 .. 4 : Len(last.regions[k]) >= 1
        /\ ~ last.raised
        /\ err # "TypeError"

C6_SplitDiagonals ==
    Rendered =>
        LET shared == SeqSet(last.ops[1].pts) \cap SeqSet(last.ops[2].pts)
            nw == corner_nw(last.x, last.y, tile_size)
            ne == corner_ne(last.x, last.y, tile_size)
            se == corner_se(last.x, last.y, tile_size)
            sw == corner_sw(last.x, last.y, tile_size)
        IN /\ last.split = "right" => shared = {nw, se}
           /\ last.split = "left" => shared = {sw, ne}

\* C7: rendering a tile touches only its own square: every polygon vertex and
\* every painted pixel lies in x <= px < x+T, y <= py < y+T, and no tile samples
\* a pixel that the render of another tile has written.
C7_TilesIndependent ==
    Rendered =>
        LET sq == TileSquare(last.x, last.y, tile_size)
        IN /\ \A k \in 1 .. 2 : SeqSet(last.ops[k].pts) \subseteq sq
           /\ last.wrote \subseteq sq
           /\ last.stale = {}

C9_SolidImageUnchanged ==
    (/\ ValidTileSize
     /\ Prepared
     /\ \A p, q \in DOMAIN orig.pix : orig.pix[p] = orig.pix[q]) =>
        /\ pc # "error"
        /\ \A p \in DOMAIN image.pix : image.pix[p] = orig.pix[p]
        /\ last.valid =>
             LET c == orig.pix[<<0, 0>>]
             IN /\ ~ last.raised
                /\ last.colors = <<c, c, c, c>>
                /\ last.dists = <<Black, Black, Black, Black>>
                /\ last.split = "right"
                /\ last.top_color = c
                /\ last.bottom_color = c

\* the tile origins (i*T, j*T), 0 <= i < w/T, 0 <= j < h/T, row by row
RowMajorOrigins(w, h, T) ==
    LET cols == w \div T
        rows == h \div T
    IN [k \in 1 .. (cols * rows) |-> <<((k - 1) % cols) * T, ((k - 1) \div cols) * T>>]

\* C10: for a valid tile size the driver loop calls process_tile on the tile
\* origins in row-major order, each origin exactly once and nothing else, and
\* terminates after exactly (W/T)*(H/T) calls, returning the image with its
\* cropped dimensions.
C10_RowMajorExactlyOnce ==
    (ValidTileSize /\ Prepared) =>
        LET all == RowMajorOrigins(image.size[1], image.size[2], tile_size)
        IN /\ Len(calls) <= Len(all)
           /\ calls = SubSeq(all, 1, Len(calls))
           /\ todo = SubSeq(all, Len(calls) + 1, Len(all))
           /\ pc # "error"
           /\ pc = "done" => /\ calls = all
                             /\ DOMAIN image.pix = Cells(image.size[1], image.size[2])

====
